---- MODULE Spec2Model ----
(***************************************************************************)
(* A model of the role/permission editor: the store of App.vue             *)
(* (permissions, roles and their mutations, import, clear all), the        *)
(* selection and drag source of PermissionManager.vue, and the drop        *)
(* target of RoleBuilder.vue.                                              *)
(*                                                                         *)
(* Values.  A JavaScript string that the code splits, trims or sorts (a    *)
(* permission name, a category, a description) is a sequence of            *)
(* one-character strings.  An id is a record [ty, v]: ty is the JavaScript *)
(* type of the value ("string" or "number") and v its decimal or literal   *)
(* text, so that === is record equality and String(id) keeps v and sets ty *)
(* to "string".  A JSON text is represented by the value it denotes.       *)
(***************************************************************************)
EXTENDS Integers, Sequences, FiniteSets, TLC

VARIABLES
    permissions,          \* App.vue: permissions.value
    roles,                \* App.vue: roles.value
    selectedPermissions,  \* PermissionManager.vue: selectedPermissions.value
    groupBy,              \* PermissionManager.vue: groupBy.value
    transfer,             \* the DataTransfer of the drag in progress, <<>> if none
    nextUuid,             \* how many ids crypto.randomUUID() has issued, plus one
    storage,              \* localStorage: what is under STORAGE_KEY, <<>> if nothing
    last                  \* history: the handler that ran last, its inputs and its emits

vars == <<permissions, roles, selectedPermissions, groupBy, transfer, nextUuid,
          storage, last>>

(***************************************************************************)
(* Bounds of the model.                                                    *)
(***************************************************************************)
\* crypto.randomUUID() is called at most MaxUuid times in a run: the user
\* creates that many permissions and roles with the forms.  The other
\* permissions and roles of a run come from imported files.
MaxUuid == 1

(***************************************************************************)
(* Strings and optional fields.                                            *)
(***************************************************************************)
\* The value of an object key that holds undefined, and of a key that is absent.
\* Neither is a sequence of one-character strings, so neither is a string.
Undefined == <<"<undefined>">>
Absent == <<"<absent>">>

\* JavaScript truthiness of an optional string field.
Truthy(s) == s # Undefined /\ s # Absent /\ s # <<>>

Uncategorized ==
    <<"U", "n", "c", "a", "t", "e", "g", "o", "r", "i", "z", "e", "d">>

RECURSIVE TrimStart(_)
TrimStart(s) ==
    IF s # <<>> /\ Head(s) = " " THEN TrimStart(Tail(s)) ELSE s

RECURSIVE TrimEnd(_)
TrimEnd(s) ==
    IF s # <<>> /\ s[Len(s)] = " " THEN TrimEnd(SubSeq(s, 1, Len(s) - 1)) ELSE s

\* String.prototype.trim, for the whitespace the model's inputs hold (spaces).
Trim(s) == TrimEnd(TrimStart(s))

(***************************************************************************)
(* Ids.                                                                    *)
(***************************************************************************)
StringId(text) == [ty |-> "string", v |-> text]
NumberId(text) == [ty |-> "number", v |-> text]

\* String(x) of the global String function, for a string or a number.
String(id) == [ty |-> "string", v |-> id.v]

\* The n-th id crypto.randomUUID() issues: a string no other call returns.
RandomUUID(n) == StringId("uuid-" \o ToString(n))

(***************************************************************************)
(* Sequences.                                                              *)
(***************************************************************************)
Range(s) == {s[i] : i \in DOMAIN s}

\* Array.prototype.find(p => p.id === id) is truthy.
HasId(perms, id) == \E i \in DOMAIN perms : perms[i].id = id

IdsOf(perms) == {perms[i].id : i \in DOMAIN perms}

NoDuplicateIds(s) ==
    \A i, j \in DOMAIN s : s[i].id = s[j].id => i = j

(***************************************************************************)
(* JSON.                                                                   *)
(***************************************************************************)
\* JSON.stringify of a permission: a key holding undefined is left out.
StringifyPermission(p) ==
    [p EXCEPT !.category = IF @ = Undefined THEN Absent ELSE @]

\* JSON.stringify of an array of permissions.
StringifyPermissions(ps) == [i \in DOMAIN ps |-> StringifyPermission(ps[i])]

\* JSON.parse of a text the model holds as the value it denotes.
ParseJson(text) == text

(***************************************************************************)
(* String order.                                                           *)
(***************************************************************************)
Digits == <<"0", "1", "2", "3", "4", "5", "6", "7", "8", "9">>
Upper ==
    <<"A", "B", "C", "D", "E", "F", "G", "H", "I", "J", "K", "L", "M",
      "N", "O", "P", "Q", "R", "S", "T", "U", "V", "W", "X", "Y", "Z">>
Lower ==
    <<"a", "b", "c", "d", "e", "f", "g", "h", "i", "j", "k", "l", "m",
      "n", "o", "p", "q", "r", "s", "t", "u", "v", "w", "x", "y", "z">>

IndexIn(s, ch) == CHOOSE i \in DOMAIN s : s[i] = ch

\* The UTF-16 code unit of a character of the model's alphabet.
CodeUnit(ch) ==
    IF ch = " " THEN 32
    ELSE IF ch = "." THEN 46
    ELSE IF ch \in Range(Digits) THEN 47 + IndexIn(Digits, ch)
    ELSE IF ch \in Range(Upper) THEN 64 + IndexIn(Upper, ch)
    ELSE 96 + IndexIn(Lower, ch)

\* The primary collation weight: space, punctuation, digits, then letters
\* with the two cases of a letter alike.
PrimaryWeight(ch) ==
    IF ch = " " THEN 1
    ELSE IF ch = "." THEN 2
    ELSE IF ch \in Range(Digits) THEN 2 + IndexIn(Digits, ch)
    ELSE IF ch \in Range(Upper) THEN 12 + IndexIn(Upper, ch)
    ELSE 12 + IndexIn(Lower, ch)

\* The case weight: lower case sorts before upper case.
CaseWeight(ch) == IF ch \in Range(Upper) THEN 1 ELSE 0

RECURSIVE LexLess(_, _)
LexLess(a, b) ==
    IF b = <<>> THEN FALSE
    ELSE IF a = <<>> THEN TRUE
    ELSE IF Head(a) # Head(b) THEN Head(a) < Head(b)
    ELSE LexLess(Tail(a), Tail(b))

\* The default comparison of Array.prototype.sort on strings: by code units.
CodeUnitLess(s, t) ==
    LexLess([i \in DOMAIN s |-> CodeUnit(s[i])], [i \in DOMAIN t |-> CodeUnit(t[i])])

\* s.localeCompare(t) < 0.
LocaleLess(s, t) ==
    LET ps == [i \in DOMAIN s |-> PrimaryWeight(s[i])]
        pt == [i \in DOMAIN t |-> PrimaryWeight(t[i])]
    IN  \/ LexLess(ps, pt)
        \/ /\ ps = pt
           /\ LexLess([i \in DOMAIN s |-> CaseWeight(s[i])],
                      [i \in DOMAIN t |-> CaseWeight(t[i])])

\* Array.prototype.sort: a stable sort of s by the strict order Less.
StableSort(s, Less(_, _)) ==
    LET Before(j, i) == Less(s[j], s[i]) \/ (~Less(s[i], s[j]) /\ j < i)
        Position(i) == 1 + Cardinality({j \in DOMAIN s : Before(j, i)})
    IN  [k \in DOMAIN s |-> s[CHOOSE i \in DOMAIN s : Position(i) = k]]

(***************************************************************************)
(* Objects used as maps: the order in which their keys are enumerated.     *)
(***************************************************************************)
\* A key that is a canonical array index ("0", "7", "10"; not "07") is an
\* integer key.  The model's keys stay far below the 2^32 - 2 limit.
IsIntegerKey(key) ==
    /\ key # <<>>
    /\ \A i \in DOMAIN key : key[i] \in Range(Digits)
    /\ (Len(key) > 1 => key[1] # "0")

IntegerKeyLess(a, b) ==
    Len(a) < Len(b) \/ (Len(a) = Len(b) /\ CodeUnitLess(a, b))

\* The enumeration order of an object whose string keys were created in the
\* order `inserted`: integer keys ascending, then the others as inserted.
KeyOrder(inserted) ==
    StableSort(SelectSeq(inserted, IsIntegerKey), IntegerKeyLess)
        \o SelectSeq(inserted, LAMBDA k : ~IsIntegerKey(k))

(***************************************************************************)
(* PermissionManager.vue: the grouped views.  A view is the sequence of    *)
(* its entries [key, group] in enumeration order.                          *)
(***************************************************************************)
\* name.split('.')
RECURSIVE Split(_)
Split(name) ==
    IF \E i \in DOMAIN name : name[i] = "."
    THEN LET dot == CHOOSE i \in DOMAIN name :
                        name[i] = "." /\ \A j \in 1..(i - 1) : name[j] # "."
         IN  <<SubSeq(name, 1, dot - 1)>> \o Split(SubSeq(name, dot + 1, Len(name)))
    ELSE <<name>>

\* parts[parts.length - 1]
ActionOf(permission) ==
    LET parts == Split(permission.name) IN parts[Len(parts)]

\* permission.category || 'Uncategorized'
CategoryOf(permission) ==
    IF Truthy(permission.category) THEN permission.category ELSE Uncategorized

Unknown == <<"u", "n", "k", "n", "o", "w", "n">>

\* Second revision: parts[parts.length - 1] || 'unknown'
ActionOf2(permission) ==
    LET parts == Split(permission.name)
    IN  IF parts[Len(parts)] # <<>> THEN parts[Len(parts)] ELSE Unknown

\* Second revision: parts.length > 1 ? parts[0] : 'Uncategorized'
CategoryOf2(permission) ==
    LET parts == Split(permission.name)
    IN  IF Len(parts) > 1 THEN parts[1] ELSE Uncategorized

\* `groups` is an object literal, so groups[key] of a key it does not own is
\* the property of that name of Object.prototype, if there is one: a
\* function, which is truthy and has no push.  The names the inputs can hold:
ObjectPrototypeKeys ==
    { <<"v", "a", "l", "u", "e", "O", "f">>,
      <<"t", "o", "S", "t", "r", "i", "n", "g">>,
      <<"c", "o", "n", "s", "t", "r", "u", "c", "t", "o", "r">> }

\* The keys of `groups` in the order the forEach loop creates them.
RECURSIVE FirstSeen(_, _)
FirstSeen(keys, seen) ==
    IF keys = <<>> THEN <<>>
    ELSE IF Head(keys) \in seen THEN FirstSeen(Tail(keys), seen)
    ELSE <<Head(keys)>> \o FirstSeen(Tail(keys), seen \cup {Head(keys)})

\* The view of a computation that ended with a TypeError.
Thrown == [threw |-> TRUE, entries |-> <<>>]

\* The forEach loop, Object.keys(groups).sort() and the reduce into acc.
\* groups[key].push(permission) throws for a key of Object.prototype.
GroupSorted(ps, KeyOf(_)) ==
    LET created == FirstSeen([i \in DOMAIN ps |-> KeyOf(ps[i])], {})
        sortedKeys == StableSort(KeyOrder(created), CodeUnitLess)
        Group(key) == SelectSeq(ps, LAMBDA p : KeyOf(p) = key)
        ByName(a, b) == LocaleLess(a.name, b.name)
    IN  IF \E i \in DOMAIN ps : KeyOf(ps[i]) \in ObjectPrototypeKeys
        THEN Thrown
        ELSE [threw |-> FALSE,
              entries |->
                [k \in DOMAIN sortedKeys |->
                    LET key == KeyOrder(sortedKeys)[k]
                    IN  [key |-> key, group |-> StableSort(Group(key), ByName)]]]

permissionsByAction(ps) == GroupSorted(ps, ActionOf)

permissionsByCategory(ps) == GroupSorted(ps, CategoryOf)

groupedPermissions(by, ps) ==
    IF by = "action" THEN permissionsByAction(ps) ELSE permissionsByCategory(ps)

\* Second revision of PermissionManager.vue.
permissionsByAction2(ps) == GroupSorted(ps, ActionOf2)

permissionsByCategory2(ps) == GroupSorted(ps, CategoryOf2)

groupedPermissions2(by, ps) ==
    IF by = "action" THEN permissionsByAction2(ps) ELSE permissionsByCategory2(ps)

\* RoleBuilder.vue: the permissions of a role, by category.
groupPermissionsByCategory(ps) == GroupSorted(ps, CategoryOf)

\* Mutant: the input array itself is sorted by name.
GroupingInput_SortedInPlace(ps) ==
    StableSort(ps, LAMBDA a, b : LocaleLess(a.name, b.name))

\* The input array after a grouping was computed from it: forEach reads it,
\* push and sort act on the arrays of `groups`, which are new arrays.
GroupingInput(ps) == ps

(***************************************************************************)
(* App.vue: the store.                                                     *)
(***************************************************************************)
addPermission(ps, permission) == Append(ps, permission)

deletePermissionGlobal(ps, id) == SelectSeq(ps, LAMBDA p : p.id # id)

\* Mutant: the roles are left as they are.
deletePermissionCascade_NoCascade(rs, id) == rs

\* Mutant: the last role is left as it is.
deletePermissionCascade_SkipsLastRole(rs, id) ==
    [i \in DOMAIN rs |->
        IF i = Len(rs) THEN rs[i]
        ELSE [rs[i] EXCEPT !.permissions = SelectSeq(@, LAMBDA p : p.id # id)]]

\* Mutant: a role that holds the permission loses all its permissions.
deletePermissionCascade_ClearsRole(rs, id) ==
    [i \in DOMAIN rs |->
        [rs[i] EXCEPT !.permissions = IF HasId(@, id) THEN <<>> ELSE @]]

deletePermissionCascade(rs, id) ==
    [i \in DOMAIN rs |->
        [rs[i] EXCEPT !.permissions = SelectSeq(@, LAMBDA p : p.id # id)]]

\* Array.prototype.findIndex(r => r.id === id), 0 for -1.
FindIndex(rs, id) ==
    IF \E i \in DOMAIN rs : rs[i].id = id
    THEN CHOOSE i \in DOMAIN rs :
            rs[i].id = id /\ \A j \in DOMAIN rs : rs[j].id = id => i <= j
    ELSE 0

addRole(rs, role) == Append(rs, role)

\* Mutant: only the first role of that id is removed.
deleteRole_FirstOnly(rs, id) ==
    LET index == FindIndex(rs, id)
    IN  IF index # 0
        THEN SubSeq(rs, 1, index - 1) \o SubSeq(rs, index + 1, Len(rs))
        ELSE rs

deleteRole(rs, id) == SelectSeq(rs, LAMBDA r : r.id # id)

\* Mutant: a role whose id is not found is added.
updateRole_Upserts(rs, updatedRole) ==
    LET index == FindIndex(rs, updatedRole.id)
    IN  IF index # 0 THEN [rs EXCEPT ![index] = updatedRole]
        ELSE Append(rs, updatedRole)

updateRole(rs, updatedRole) ==
    LET index == FindIndex(rs, updatedRole.id)
    IN  IF index # 0 THEN [rs EXCEPT ![index] = updatedRole] ELSE rs

\* The store after the updateRole events of one handler, in emission order.
RECURSIVE ApplyEmits(_, _)
ApplyEmits(rs, emits) ==
    IF emits = <<>> THEN rs
    ELSE ApplyEmits(updateRole(rs, Head(emits)), Tail(emits))

(***************************************************************************)
(* RoleBuilder.vue: the drop target.  Both operators return the sequence   *)
(* of roles emitted as updateRole events.                                  *)
(***************************************************************************)
\* Mutant: a plain concatenation, nothing filtered out.
NewPermissions_Unfiltered(payload, role) == payload

\* permissions.filter(permission => !role.permissions.find(p => p.id === permission.id))
NewPermissions(payload, role) ==
    SelectSeq(payload, LAMBDA permission : ~HasId(role.permissions, permission.id))

\* Mutant: the update is emitted also when nothing is new.
handleDropMultiple_AlwaysEmits(permissionsData, role) ==
    <<[role EXCEPT !.permissions = @ \o NewPermissions(ParseJson(permissionsData), role)]>>

\* Mutant: the event carries the added permissions only.
handleDropMultiple_Delta(permissionsData, role) ==
    LET newPermissions == NewPermissions(ParseJson(permissionsData), role)
    IN  IF Len(newPermissions) > 0
        THEN <<[role EXCEPT !.permissions = newPermissions]>>
        ELSE <<>>

handleDropMultiple(permissionsData, role) ==
    LET newPermissions == NewPermissions(ParseJson(permissionsData), role)
    IN  IF Len(newPermissions) > 0
        THEN <<[role EXCEPT !.permissions = @ \o newPermissions]>>
        ELSE <<>>

handleDropSingle(permissionData, role) ==
    LET permission == ParseJson(permissionData)
    IN  IF ~HasId(role.permissions, permission.id)
        THEN <<[role EXCEPT !.permissions = Append(@, permission)]>>
        ELSE <<>>

\* Mutant: the single key is looked at first.
handleDrop_SingleFirst(dataTransfer, role) ==
    IF dataTransfer.permission # <<>>
    THEN handleDropSingle(dataTransfer.permission[1], role)
    ELSE IF dataTransfer.permissions # <<>>
         THEN handleDropMultiple(dataTransfer.permissions[1], role)
         ELSE <<>>

\* getData returns "" for a key that was not set; transfer.permissions and
\* transfer.permission hold the text of their key, <<>> standing for "".
handleDrop(dataTransfer, role) ==
    IF dataTransfer.permissions # <<>>
    THEN handleDropMultiple(dataTransfer.permissions[1], role)
    ELSE IF dataTransfer.permission # <<>>
         THEN handleDropSingle(dataTransfer.permission[1], role)
         ELSE <<>>

\* Mutant: no event when the role does not hold the id.
removePermissionFromRole_OnlyIfHeld(role, permissionId) ==
    IF HasId(role.permissions, permissionId)
    THEN <<[role EXCEPT !.permissions = SelectSeq(@, LAMBDA p : p.id # permissionId)]>>
    ELSE <<>>

removePermissionFromRole(role, permissionId) ==
    <<[role EXCEPT !.permissions = SelectSeq(@, LAMBDA p : p.id # permissionId)]>>

(***************************************************************************)
(* PermissionManager.vue: selection and drag source.                       *)
(***************************************************************************)
togglePermission(selected, id) ==
    IF id \in selected THEN selected \ {id} ELSE selected \cup {id}

\* Mutant: every member is flipped on its own.
toggleGroup_FlipsEach(selected, group) ==
    (selected \ IdsOf(group)) \cup (IdsOf(group) \ selected)

\* Mutant: the group is cleared as soon as one member is selected.
toggleGroup_AnySelected(selected, group) ==
    IF \E i \in DOMAIN group : group[i].id \in selected
    THEN selected \ IdsOf(group)
    ELSE selected \cup IdsOf(group)

toggleGroup(selected, group) ==
    LET allSelected == \A i \in DOMAIN group : group[i].id \in selected
    IN  IF allSelected
        THEN selected \ IdsOf(group)
        ELSE selected \cup IdsOf(group)

isGroupSelected(selected, group) ==
    Len(group) > 0 /\ \A i \in DOMAIN group : group[i].id \in selected

isGroupPartiallySelected(selected, group) ==
    LET selectedCount == Len(SelectSeq(group, LAMBDA p : p.id \in selected))
    IN  selectedCount > 0 /\ selectedCount < Len(group)

clearSelection == {}

EmptyTransfer == [permissions |-> <<>>, permission |-> <<>>]

\* Mutant: the selected permissions are sent whenever there is a selection.
onDragStart_WheneverSelected(ps, selected, permission) ==
    IF selected # {}
    THEN [EmptyTransfer EXCEPT !.permissions =
            <<StringifyPermissions(SelectSeq(ps, LAMBDA p : p.id \in selected))>>]
    ELSE [EmptyTransfer EXCEPT !.permission = <<StringifyPermission(permission)>>]

onDragStart(ps, selected, permission) ==
    IF permission.id \in selected
    THEN [EmptyTransfer EXCEPT !.permissions =
            <<StringifyPermissions(SelectSeq(ps, LAMBDA p : p.id \in selected))>>]
    ELSE [EmptyTransfer EXCEPT !.permission = <<StringifyPermission(permission)>>]

(***************************************************************************)
(* App.vue: export and import.  A file is [shape, hasPermissions, items,   *)
(* keys, hasRoles, roles]: shape "invalid" is a text JSON.parse rejects,   *)
(* "null" the text null, "primitive" a number, string or boolean, "array"  *)
(* an array whose elements are items, "object" an object.  An object with  *)
(* a permissions key holds the array items under it; one without holds     *)
(* items as the values of its keys, written in the order of `keys`.  An    *)
(* element of items or roles may be Null, the JSON value null.             *)
(***************************************************************************)
Null == [null |-> TRUE]

\* ({...x, id: String(x.id)}) over an array.
StringifyIds(xs) == [i \in DOMAIN xs |-> [xs[i] EXCEPT !.id = String(@)]]

\* x.id of an element throws a TypeError.
HasNull(xs) == \E i \in DOMAIN xs : xs[i] = Null

\* Object.values(data): the values in the enumeration order of the keys.
ObjectValues(file) ==
    LET order == KeyOrder(file.keys)
    IN  [k \in DOMAIN order |->
            file.items[CHOOSE i \in DOMAIN file.keys : file.keys[i] = order[k]]]

\* Mutant: the embedded permissions are left out of the exported roles.
exportData_RolesWithoutPermissions(ps, rs) ==
    [shape |-> "object", hasPermissions |-> TRUE,
     items |-> StringifyPermissions(ps), keys |-> <<>>,
     hasRoles |-> TRUE,
     roles |-> [i \in DOMAIN rs |-> [rs[i] EXCEPT !.permissions = <<>>]]]

\* JSON.stringify({permissions, roles}, null, 2), as the file it is when read back.
exportData(ps, rs) ==
    [shape |-> "object", hasPermissions |-> TRUE,
     items |-> StringifyPermissions(ps), keys |-> <<>>,
     hasRoles |-> TRUE,
     roles |-> [i \in DOMAIN rs |->
                  [rs[i] EXCEPT !.permissions = StringifyPermissions(@)]]]

\* Mutant: a bare list of permissions replaces the permissions only.
importLegacy_KeepsRoles(values, ps, rs) ==
    IF HasNull(values)
    THEN [permissions |-> ps, roles |-> rs, dialog |-> "error"]
    ELSE [permissions |-> StringifyIds(StringifyIds(values)),
          roles |-> rs,
          dialog |-> "success"]

\* The data is a bare array, or the values of an object without a
\* permissions key: it becomes {permissions: ..., roles: []} and is loaded.
importLegacy(values, ps, rs) ==
    IF HasNull(values)
    THEN [permissions |-> ps, roles |-> rs, dialog |-> "error"]
    ELSE [permissions |-> StringifyIds(StringifyIds(values)),
          roles |-> StringifyIds(<<>>),
          dialog |-> "success"]

\* reader.onload: the store and the dialog it ends with.  An exception
\* leaves what was assigned before it and ends with the error dialog.
importData(file, ps, rs) ==
    IF file.shape \in {"invalid", "null"}
    THEN [permissions |-> ps, roles |-> rs, dialog |-> "error"]
    ELSE IF file.shape = "primitive"
    THEN [permissions |-> ps, roles |-> rs, dialog |-> "success"]
    ELSE IF file.shape = "array"
    THEN importLegacy(file.items, ps, rs)
    ELSE IF ~file.hasPermissions
    THEN importLegacy(ObjectValues(file), ps, rs)
    ELSE IF HasNull(file.items)
    THEN [permissions |-> ps, roles |-> rs, dialog |-> "error"]
    ELSE IF file.hasRoles /\ HasNull(file.roles)
    THEN [permissions |-> StringifyIds(file.items), roles |-> rs, dialog |-> "error"]
    ELSE [permissions |-> StringifyIds(file.items),
          roles |-> IF file.hasRoles THEN StringifyIds(file.roles) ELSE rs,
          dialog |-> "success"]

(***************************************************************************)
(* App.vue: persistence.  localStorage is modelled at the one key the      *)
(* application uses.  The watcher on [permissions, roles] is deep: a push, *)
(* an assignment to an element and an assignment to .value all queue its   *)
(* callback, which Vue runs once in the microtask that follows the handler,*)
(* before the browser dispatches the next event.  An action is therefore   *)
(* the handler followed by the callback, if the handler queued it.         *)
(***************************************************************************)
NoEntry == <<>>

removeItem(store) == NoEntry

setItem(store, text) == <<text>>

\* JSON.stringify({permissions: permissions.value, roles: roles.value}).
StringifyData(ps, rs) == exportData(ps, rs)

\* The callback of watch([permissions, roles], ..., {deep: true}).
WatchCallback(store, ps, rs) == setItem(store, StringifyData(ps, rs))

\* The storage once the microtasks of a handler have run.
Flushed(queued, store, ps, rs) ==
    IF queued THEN WatchCallback(store, ps, rs) ELSE store

\* reader.onload reaches an assignment to permissions.value.
importAssigns(file) ==
    IF file.shape = "array" THEN ~HasNull(file.items)
    ELSE IF file.shape # "object" THEN FALSE
    ELSE IF ~file.hasPermissions THEN ~HasNull(ObjectValues(file))
    ELSE ~HasNull(file.items)

\* confirmClearAll up to its return: the store and the storage it leaves.
confirmClearAll(store) ==
    [permissions |-> <<>>, roles |-> <<>>, storage |-> removeItem(store)]

(***************************************************************************)
(* Inputs.                                                                 *)
(***************************************************************************)
\* What the user types into the permission form: name, description, category.
PermissionForms ==
    { [name |-> <<" ", "u", ".", "e">>, description |-> <<"d", " ">>,
       category |-> <<" ">>],
      [name |-> <<" ">>, description |-> <<>>, category |-> <<"c">>] }

\* What the user types into the role form: name, description.
RoleForms ==
    { [name |-> <<"r", " ">>, description |-> <<"d">>],
      [name |-> <<>>, description |-> <<"d">>] }

FilePermission(id, name, category) ==
    [id |-> id, name |-> name, description |-> <<>>, category |-> category]

FileRole(id, perms) ==
    [id |-> id, name |-> <<"r">>, description |-> <<"d">>, permissions |-> perms]

NoFile ==
    [shape |-> "invalid", hasPermissions |-> FALSE, items |-> <<>>,
     keys |-> <<>>, hasRoles |-> FALSE, roles |-> <<>>]

UsersEdit == <<"u", ".", "e">>
UsersView == <<"u", ".", "v">>

\* A legacy list, [{"id":7,"name":"u.e"},{"id":"7","name":"a","category":"c"}].
LegacyList ==
    [NoFile EXCEPT !.shape = "array",
       !.items = <<FilePermission(NumberId("7"), UsersEdit, Absent),
                   FilePermission(StringId("7"), <<"a">>, <<"c">>)>>]

\* A canonical file with legacy numeric ids: one permission 7, the roles 1
\* (holding a copy of permission 7) and "1".
LegacyCanonical ==
    [NoFile EXCEPT !.shape = "object", !.hasPermissions = TRUE, !.hasRoles = TRUE,
       !.items = <<FilePermission(NumberId("7"), UsersEdit, Absent)>>,
       !.roles = <<FileRole(NumberId("1"),
                      <<FilePermission(NumberId("7"), UsersEdit, Absent)>>),
                   FileRole(StringId("1"), <<>>)>>]

\* A file the application exported: permission "p", role "r" holding a copy.
Exported ==
    [NoFile EXCEPT !.shape = "object", !.hasPermissions = TRUE, !.hasRoles = TRUE,
       !.items = <<FilePermission(StringId("p"), UsersView, Absent)>>,
       !.roles = <<FileRole(StringId("r"),
                      <<FilePermission(StringId("p"), UsersView, Absent)>>)>>]

\* The files the user imports; NoFile is a text that is not JSON.
ImportFiles == {LegacyList, LegacyCanonical, Exported, NoFile}

InitLast ==
    [op |-> "init", role |-> <<>>, transfer |-> <<>>, id |-> <<>>, emits |-> <<>>,
     selected |-> {}, group |-> <<>>, streak |-> 0, dialog |-> "",
     rolesBefore |-> <<>>, view |-> <<>>, revision |-> 0, file |-> <<>>,
     permission |-> <<>>, storageAtReturn |-> <<>>]

Did(op) == [InitLast EXCEPT !.op = op]

(***************************************************************************)
(* The state after construction, and one action per handler.  While a drag *)
(* is in progress the browser delivers no mouse or keyboard events: only   *)
(* the drop, the end of the drag and the load of a file read can happen.   *)
(***************************************************************************)
Init ==
    /\ permissions = <<>>
    /\ roles = <<>>
    /\ selectedPermissions = {}
    /\ groupBy = "category"
    /\ transfer = <<>>
    /\ nextUuid = 1
    /\ last = InitLast
    /\ storage = NoEntry

Idle == transfer = <<>>

\* PermissionManager addPermission, then App addPermission.
AddPermission(form) ==
    /\ Idle
    /\ nextUuid <= MaxUuid
    /\ Trim(form.name) # <<>>
    /\ LET permission ==
               [id |-> RandomUUID(nextUuid),
                name |-> Trim(form.name),
                description |-> Trim(form.description),
                category |-> IF Trim(form.category) # <<>>
                             THEN Trim(form.category) ELSE Undefined]
       IN  permissions' = addPermission(permissions, permission)
    /\ nextUuid' = nextUuid + 1
    /\ last' = Did("addPermission")
    /\ UNCHANGED <<roles, selectedPermissions, groupBy, transfer>>
    /\ storage' = Flushed(TRUE, storage, permissions', roles')

\* PermissionManager deletePermission, then App deletePermission.
DeletePermission(id) ==
    /\ Idle
    /\ permissions' = deletePermissionGlobal(permissions, id)
    /\ roles' = deletePermissionCascade(roles, id)
    /\ last' = [Did("deletePermission") EXCEPT !.id = <<id>>, !.rolesBefore = roles]
    /\ UNCHANGED <<selectedPermissions, groupBy, transfer, nextUuid>>
    /\ storage' = Flushed(TRUE, storage, permissions', roles')

\* RoleBuilder addRole, then App addRole.
AddRole(form) ==
    /\ Idle
    /\ nextUuid <= MaxUuid
    /\ Trim(form.name) # <<>>
    /\ LET role ==
               [id |-> RandomUUID(nextUuid),
                name |-> Trim(form.name),
                description |-> Trim(form.description),
                permissions |-> <<>>]
       IN  roles' = addRole(roles, role)
    /\ nextUuid' = nextUuid + 1
    /\ last' = Did("addRole")
    /\ UNCHANGED <<permissions, selectedPermissions, groupBy, transfer>>
    /\ storage' = Flushed(TRUE, storage, permissions', roles')

\* RoleBuilder deleteRole, then App deleteRole.
DeleteRole(id) ==
    /\ Idle
    /\ roles' = deleteRole(roles, id)
    /\ last' = [Did("deleteRole") EXCEPT !.id = <<id>>, !.rolesBefore = roles]
    /\ UNCHANGED <<permissions, selectedPermissions, groupBy, transfer, nextUuid>>
    /\ storage' = Flushed(TRUE, storage, permissions', roles')

TogglePermission(id) ==
    /\ Idle
    /\ selectedPermissions' = togglePermission(selectedPermissions, id)
    /\ last' = [Did("togglePermission") EXCEPT !.id = <<id>>]
    /\ UNCHANGED <<permissions, roles, groupBy, transfer, nextUuid>>
    /\ UNCHANGED storage

\* The click on the button of one group of the view on display.
ToggleGroup(group) ==
    /\ Idle
    /\ selectedPermissions' = toggleGroup(selectedPermissions, group)
    /\ last' =
         IF last.op = "toggleGroup" /\ last.group = group /\ last.streak = 1
         THEN [last EXCEPT !.streak = 2]
         ELSE [Did("toggleGroup") EXCEPT
                 !.group = group, !.selected = selectedPermissions, !.streak = 1]
    /\ UNCHANGED <<permissions, roles, groupBy, transfer, nextUuid>>
    /\ UNCHANGED storage

\* The Clear button is on display while the selection is not empty.
ClearSelection ==
    /\ Idle
    /\ selectedPermissions # {}
    /\ selectedPermissions' = clearSelection
    /\ last' = Did("clearSelection")
    /\ UNCHANGED <<permissions, roles, groupBy, transfer, nextUuid>>
    /\ UNCHANGED storage

\* The tabs are on display while there are permissions.
SetGroupBy(value) ==
    /\ Idle
    /\ permissions # <<>>
    /\ value # groupBy
    /\ groupBy' = value
    /\ last' = Did("setGroupBy")
    /\ UNCHANGED <<permissions, roles, selectedPermissions, transfer, nextUuid>>
    /\ UNCHANGED storage

\* dragstart on the card of a permission.
DragStart(permission) ==
    /\ Idle
    /\ transfer' = <<onDragStart(permissions, selectedPermissions, permission)>>
    /\ last' = [Did("onDragStart") EXCEPT !.permission = <<permission>>]
    /\ UNCHANGED <<permissions, roles, selectedPermissions, groupBy, nextUuid>>
    /\ UNCHANGED storage

\* The drag ends outside every role.
DragEnd ==
    /\ ~Idle
    /\ transfer' = <<>>
    /\ last' = Did("dragEnd")
    /\ UNCHANGED <<permissions, roles, selectedPermissions, groupBy, nextUuid>>
    /\ UNCHANGED storage

\* drop on the card of roles[i]: RoleBuilder handleDrop, then App updateRole
\* for each event emitted.
HandleDrop(i) ==
    /\ ~Idle
    /\ LET emits == handleDrop(transfer[1], roles[i])
       IN  /\ roles' = ApplyEmits(roles, emits)
           /\ last' = [Did("handleDrop") EXCEPT
                         !.role = <<roles[i]>>, !.transfer = transfer, !.emits = emits]
    /\ transfer' = <<>>
    /\ UNCHANGED <<permissions, selectedPermissions, groupBy, nextUuid>>
    /\ storage' = Flushed(last'.emits # <<>>, storage, permissions', roles')

\* The click on the remove button of a permission listed in roles[i].
RemovePermissionFromRole(i, permissionId) ==
    /\ Idle
    /\ LET emits == removePermissionFromRole(roles[i], permissionId)
       IN  /\ roles' = ApplyEmits(roles, emits)
           /\ last' = [Did("removePermissionFromRole") EXCEPT
                         !.role = <<roles[i]>>, !.id = <<permissionId>>, !.emits = emits]
    /\ UNCHANGED <<permissions, selectedPermissions, groupBy, transfer, nextUuid>>
    /\ storage' = Flushed(TRUE, storage, permissions', roles')

\* reader.onload of a file picked earlier.  The read of a local file is taken
\* to end before the user's next gesture, so it does not fall into a drag.
ReaderOnload(file) ==
    /\ Idle
    /\ LET result == importData(file, permissions, roles)
       IN  /\ permissions' = result.permissions
           /\ roles' = result.roles
           /\ last' = [Did("importData") EXCEPT
                         !.dialog = result.dialog, !.file = <<file>>,
                         !.rolesBefore = roles]
    /\ UNCHANGED <<selectedPermissions, groupBy, transfer, nextUuid>>
    /\ storage' = Flushed(importAssigns(file), storage, permissions', roles')

\* The confirmation of the Clear All dialog: confirmClearAll, then the
\* watcher's callback that its two assignments queued.
ConfirmClearAll ==
    /\ Idle
    /\ LET cleared == confirmClearAll(storage)
       IN  /\ permissions' = cleared.permissions
           /\ roles' = cleared.roles
           /\ storage' = Flushed(TRUE, cleared.storage, cleared.permissions, cleared.roles)
           /\ last' = [Did("confirmClearAll") EXCEPT
                         !.storageAtReturn = <<cleared.storage>>]
    /\ UNCHANGED <<selectedPermissions, groupBy, transfer, nextUuid>>

Next ==
    \/ \E form \in PermissionForms : AddPermission(form)
    \/ \E id \in IdsOf(permissions) : DeletePermission(id)
    \/ \E form \in RoleForms : AddRole(form)
    \/ \E id \in IdsOf(roles) : DeleteRole(id)
    \/ \E id \in IdsOf(permissions) : TogglePermission(id)
    \/ \E entry \in Range(groupedPermissions(groupBy, permissions).entries) :
          ToggleGroup(entry.group)
    \/ ClearSelection
    \/ \E value \in {"action", "category"} : SetGroupBy(value)
    \/ \E permission \in Range(permissions) : DragStart(permission)
    \/ DragEnd
    \/ \E i \in DOMAIN roles : HandleDrop(i)
    \/ \E i \in DOMAIN roles : \E id \in IdsOf(roles[i].permissions) :
          RemovePermissionFromRole(i, id)
    \/ \E file \in ImportFiles : ReaderOnload(file)
    \/ ConfirmClearAll

Spec == Init /\ [][Next]_vars

(***************************************************************************)
(* RoleBuilder.vue with the store behind it, its handlers called with any  *)
(* argument of their parameter types: a drop whose DataTransfer was filled *)
(* by another drag source, which may set both keys, and                    *)
(* removePermissionFromRole with an id the role does not hold.  The store  *)
(* starts as an import leaves it.                                          *)
(***************************************************************************)
ForeignTransfers ==
    { \* permissions: '[p]', permission: '7'
      [permissions |-> <<Exported.items>>, permission |-> <<LegacyList.items[2]>>],
      \* permissions: '[]', permission: '7'
      [permissions |-> << <<>> >>, permission |-> <<LegacyList.items[2]>>],
      \* permissions: '[7, "7"]', permission: 'p'
      [permissions |-> <<LegacyList.items>>, permission |-> <<Exported.items[1]>>],
      \* neither key
      EmptyTransfer }

\* The ids removePermissionFromRole is called with.
CallIds == {StringId("p"), StringId("7"), NumberId("7")}

InitCalls ==
    /\ \E file \in ImportFiles :
          LET result == importData(file, <<>>, <<>>)
          IN  permissions = result.permissions /\ roles = result.roles
    /\ selectedPermissions = {}
    /\ groupBy = "category"
    /\ transfer = <<>>
    /\ nextUuid = 1
    /\ last = InitLast
    /\ storage = WatchCallback(NoEntry, permissions, roles)

\* dragenter of a drag that started outside the permission panel.
ForeignDragStart(dataTransfer) ==
    /\ Idle
    /\ transfer' = <<dataTransfer>>
    /\ last' = Did("foreignDragStart")
    /\ UNCHANGED <<permissions, roles, selectedPermissions, groupBy, nextUuid>>
    /\ UNCHANGED storage

NextCalls ==
    \/ \E dataTransfer \in ForeignTransfers : ForeignDragStart(dataTransfer)
    \/ \E permission \in Range(permissions) : DragStart(permission)
    \/ DragEnd
    \/ \E i \in DOMAIN roles : HandleDrop(i)
    \/ \E i \in DOMAIN roles : \E id \in CallIds : RemovePermissionFromRole(i, id)
    \/ \E form \in RoleForms : AddRole(form)
    \/ \E id \in IdsOf(roles) : DeleteRole(id)

SpecCalls == InitCalls /\ [][NextCalls]_vars

(***************************************************************************)
(* The grouped views of PermissionManager.vue (both revisions) and of      *)
(* RoleBuilder.vue, computed from any permission collection the props can  *)
(* hold: a selection of ViewPool, in its order.  The selection handlers    *)
(* are called with the groups on display and with the empty group.         *)
(***************************************************************************)
ViewPermission(id, name, category) ==
    [id |-> StringId(id), name |-> name, description |-> <<"d">>,
     category |-> category]

ViewPool ==
    << ViewPermission("1", UsersEdit, Absent),
       ViewPermission("2", <<"u", ".">>, <<"9">>),
       ViewPermission("3", <<"a">>, <<"1", "0">>),
       ViewPermission("4", <<"B", ".", "1", "0">>, <<"b">>),
       ViewPermission("5", <<"b", ".", "9">>, <<"v", "a", "l", "u", "e", "O", "f">>) >>

\* The elements of s at the positions in keep, in the order of s.
RECURSIVE Pick(_, _, _)
Pick(s, keep, i) ==
    IF i > Len(s) THEN <<>>
    ELSE (IF i \in keep THEN <<s[i]>> ELSE <<>>) \o Pick(s, keep, i + 1)

ViewInputs == {Pick(ViewPool, keep, 1) : keep \in SUBSET DOMAIN ViewPool}

InitViews ==
    /\ permissions \in ViewInputs
    /\ roles = <<FileRole(StringId("r"), permissions)>>
    /\ selectedPermissions = {}
    /\ groupBy = "category"
    /\ transfer = <<>>
    /\ nextUuid = 1
    /\ last = InitLast
    /\ storage = WatchCallback(NoEntry, permissions, roles)

\* The view of the permission panel, as revision 1 or 2 computes it.
ViewOf(revision, by, ps) ==
    IF revision = 1 THEN groupedPermissions(by, ps) ELSE groupedPermissions2(by, ps)

\* The computed property groupedPermissions is evaluated.
Render(revision) ==
    /\ Idle
    /\ permissions' = GroupingInput(permissions)
    /\ last' = [Did("render") EXCEPT
                  !.view = <<ViewOf(revision, groupBy, permissions)>>,
                  !.revision = revision,
                  !.streak = IF last.op = "render" /\ last.revision = revision
                                  /\ last.streak = 1
                             THEN 2 ELSE 1]
    /\ UNCHANGED <<roles, selectedPermissions, groupBy, transfer, nextUuid>>
    /\ UNCHANGED storage

\* The card of roles[i] is rendered: groupPermissionsByCategory(role.permissions).
RenderRole(i) ==
    /\ Idle
    /\ roles' = [roles EXCEPT ![i].permissions = GroupingInput(@)]
    /\ last' = [Did("renderRole") EXCEPT
                  !.view = <<groupPermissionsByCategory(roles[i].permissions)>>,
                  !.role = <<roles[i]>>]
    /\ UNCHANGED <<permissions, selectedPermissions, groupBy, transfer, nextUuid>>
    /\ UNCHANGED storage

\* The groups toggleGroup is called with: those of either revision's view,
\* and the empty group.
ShownGroups ==
    { entry.group :
        entry \in Range(groupedPermissions(groupBy, permissions).entries)
                    \cup Range(groupedPermissions2(groupBy, permissions).entries) }
        \cup {<<>>}

NextViews ==
    \/ \E revision \in {1, 2} : Render(revision)
    \/ \E i \in DOMAIN roles : RenderRole(i)
    \/ \E value \in {"action", "category"} : SetGroupBy(value)
    \/ \E id \in IdsOf(permissions) : TogglePermission(id)
    \/ \E group \in ShownGroups : ToggleGroup(group)
    \/ ClearSelection

SpecViews == InitViews /\ [][NextViews]_vars

(***************************************************************************)
(* App.vue import and export: the files a user may pick, among them the    *)
(* file the application has just exported, imported into the stores that   *)
(* the forms, drops and earlier imports leave.                             *)
(***************************************************************************)
\* A legacy object with numeric keys, {"10": {"id":10,...}, "9": {"id":"9",...}}.
LegacyMap ==
    [NoFile EXCEPT !.shape = "object",
       !.keys = << <<"1", "0">>, <<"9">> >>,
       !.items = <<FilePermission(NumberId("10"), UsersEdit, Absent),
                   FilePermission(StringId("9"), UsersView, <<"c">>)>>]

\* The spec's scenario: [{"id":7,"name":"a.b"}].
BareArray ==
    [NoFile EXCEPT !.shape = "array",
       !.items = <<FilePermission(NumberId("7"), <<"a", ".", "b">>, Absent)>>]

\* {"permissions":[{"id":"q",...}],"roles":[null]}
BrokenRoles ==
    [NoFile EXCEPT !.shape = "object", !.hasPermissions = TRUE, !.hasRoles = TRUE,
       !.items = <<FilePermission(StringId("q"), UsersEdit, Absent)>>,
       !.roles = <<Null>>]

\* [null]
BrokenList == [NoFile EXCEPT !.shape = "array", !.items = <<Null>>]

\* The text null, and the text of a number.
NullText == [NoFile EXCEPT !.shape = "null"]
NumberText == [NoFile EXCEPT !.shape = "primitive"]

PickedFiles ==
    {LegacyCanonical, Exported, LegacyMap, BareArray, BrokenRoles, BrokenList,
     NullText, NumberText, NoFile}

NextImport ==
    \/ \E form \in PermissionForms : AddPermission(form)
    \/ \E form \in RoleForms : AddRole(form)
    \/ \E id \in IdsOf(permissions) : DeletePermission(id)
    \/ \E permission \in Range(permissions) : DragStart(permission)
    \/ DragEnd
    \/ \E i \in DOMAIN roles : HandleDrop(i)
    \/ \E file \in PickedFiles \cup {exportData(permissions, roles)} :
          ReaderOnload(file)
    \/ ConfirmClearAll

SpecImport == Init /\ [][NextImport]_vars

(***************************************************************************)
(* The store handlers of App.vue called with any argument of their         *)
(* parameter types: updateRole and deleteRole do not check that the role   *)
(* exists.  The store starts as an import leaves it.                       *)
(***************************************************************************)
\* The roles updateRole is called with, and the ids deleteRole is called with.
StoreRoleIds == {StringId("1"), StringId("r"), NumberId("1"), RandomUUID(1)}

UpdateRoleArgs ==
    { [FileRole(id, perms) EXCEPT !.name = <<"x">>] :
        id \in StoreRoleIds, perms \in {<<>>, Exported.items} }

\* App updateRole, called with updatedRole.
UpdateRole(updatedRole) ==
    /\ Idle
    /\ roles' = updateRole(roles, updatedRole)
    /\ last' = [Did("updateRole") EXCEPT
                  !.role = <<updatedRole>>, !.rolesBefore = roles]
    /\ UNCHANGED <<permissions, selectedPermissions, groupBy, transfer, nextUuid>>
    /\ storage' = Flushed(FindIndex(roles, updatedRole.id) # 0, storage, permissions', roles')

NextStore ==
    \/ \E updatedRole \in UpdateRoleArgs : UpdateRole(updatedRole)
    \/ \E id \in StoreRoleIds : DeleteRole(id)
    \/ \E form \in RoleForms : AddRole(form)
    \/ \E form \in PermissionForms : AddPermission(form)
    \/ \E id \in IdsOf(permissions) : DeletePermission(id)

SpecStore == InitCalls /\ [][NextStore]_vars

(***************************************************************************)
(* The application without import and clear all: the store holds what the  *)
(* forms and the drops built.  A run starts from one of the stores that    *)
(* earlier such steps leave: up to two permissions and a role that holds   *)
(* copies of some of them, their ids issued by crypto.randomUUID() before. *)
(***************************************************************************)
FormPermissionA ==
    [id |-> StringId("uuid-a"), name |-> UsersEdit, description |-> <<"d">>,
     category |-> Undefined]

FormPermissionB ==
    [id |-> StringId("uuid-b"), name |-> UsersView, description |-> <<>>,
     category |-> <<"c">>]

FormRole(perms) ==
    [id |-> StringId("uuid-r"), name |-> <<"r">>, description |-> <<"d">>,
     permissions |-> perms]

FormStores ==
    { [permissions |-> ps, roles |-> rs] :
        ps \in {<<>>, <<FormPermissionA>>, <<FormPermissionA, FormPermissionB>>},
        rs \in {<<>>, <<FormRole(<<>>)>>,
                <<FormRole(<<StringifyPermission(FormPermissionA)>>)>>,
                <<FormRole(StringifyPermissions(<<FormPermissionA, FormPermissionB>>))>>} }

InitForms ==
    /\ \E store \in FormStores :
          /\ \A i \in DOMAIN store.roles :
                IdsOf(store.roles[i].permissions) \subseteq IdsOf(store.permissions)
          /\ permissions = store.permissions
          /\ roles = store.roles
    /\ selectedPermissions = {}
    /\ groupBy = "category"
    /\ transfer = <<>>
    /\ nextUuid = 1
    /\ last = InitLast
    /\ storage = WatchCallback(NoEntry, permissions, roles)

NextForms ==
    \/ \E form \in PermissionForms : AddPermission(form)
    \/ \E id \in IdsOf(permissions) : DeletePermission(id)
    \/ \E form \in RoleForms : AddRole(form)
    \/ \E id \in IdsOf(roles) : DeleteRole(id)
    \/ \E id \in IdsOf(permissions) : TogglePermission(id)
    \/ ClearSelection
    \/ \E permission \in Range(permissions) : DragStart(permission)
    \/ DragEnd
    \/ \E i \in DOMAIN roles : HandleDrop(i)
    \/ \E i \in DOMAIN roles : \E id \in IdsOf(roles[i].permissions) :
          RemovePermissionFromRole(i, id)

SpecForms == InitForms /\ [][NextForms]_vars

(***************************************************************************)
(* Properties.                                                             *)
(***************************************************************************)
\* The permissions a drop carries: the array of the permissions key if it
\* is set, else the one permission of the permission key.
DropPayload(dataTransfer) ==
    IF dataTransfer.permissions # <<>> THEN dataTransfer.permissions[1]
    ELSE IF dataTransfer.permission # <<>> THEN <<dataTransfer.permission[1]>>
    ELSE <<>>

OnRole(role, permission) ==
    \E j \in DOMAIN role.permissions : role.permissions[j].id = permission.id

\* The payload permissions whose id matches no permission of the role.
NotOnRole(dataTransfer, role) ==
    SelectSeq(DropPayload(dataTransfer), LAMBDA q : ~OnRole(role, q))

Dropped == last.op = "handleDrop"

\* The role a drop leaves: the emitted one, or the target if none was emitted.
AfterDrop == IF last.emits # <<>> THEN last.emits[1] ELSE last.role[1]

\* C1: in every reachable state, no role's permissions list holds two
\* entries with the same id.
C1_RolePermissionsUnique ==
    \A i \in DOMAIN roles : NoDuplicateIds(roles[i].permissions)

\* C2: right after deletePermission(id), no role holds an embedded
\* permission with that id and the global collection holds none either.
C2_DeleteCascades ==
    last.op = "deletePermission" =>
        /\ ~HasId(permissions, last.id[1])
        /\ \A i \in DOMAIN roles : ~HasId(roles[i].permissions, last.id[1])

\* deletePermission ran on an id that a role held a copy of.
C2_Witness ==
    /\ last.op = "deletePermission"
    /\ \E i \in DOMAIN last.rolesBefore :
          HasId(last.rolesBefore[i].permissions, last.id[1])

\* C3: in every reachable state, no two global permissions share an id and
\* no two roles share an id.
C3_IdsUnique == NoDuplicateIds(permissions) /\ NoDuplicateIds(roles)

\* C4: dropping a payload again on the role the first drop left emits no
\* update, so the permissions list stays that of one drop.
C4_DropIdempotent ==
    Dropped => handleDrop(last.transfer[1], AfterDrop) = <<>>

\* A drop of several permissions that added to the role.
C4_Witness ==
    /\ Dropped
    /\ last.emits # <<>>
    /\ Len(DropPayload(last.transfer[1])) > 1

\* C5: a drop leaves the role's permissions followed by the payload
\* permissions whose id was not on the role; of n payload permissions with k
\* on the role it adds n - k, and it creates no duplicate id.
C5_DropIsUnionById ==
    Dropped =>
        LET role == last.role[1]
            payload == DropPayload(last.transfer[1])
            added == NotOnRole(last.transfer[1], role)
            k == Len(SelectSeq(payload, LAMBDA q : OnRole(role, q)))
            result == AfterDrop.permissions
        IN  /\ result = role.permissions \o added
            /\ Len(result) = Len(role.permissions) + Len(payload) - k
            /\ \A i, j \in DOMAIN result :
                  (i < j /\ result[i].id = result[j].id) => j <= Len(role.permissions)

\* C6: a drop whose payload permissions are all on the target role emits
\* no updateRole and leaves roles and permissions as they were.
C6_NothingNewNoUpdate ==
    [][(last'.op = "handleDrop" /\ NotOnRole(last'.transfer[1], last'.role[1]) = <<>>)
          => (last'.emits = <<>> /\ roles' = roles /\ permissions' = permissions)]_vars

\* A drop of the permissions array, each of its permissions on the role.
C6_Witness ==
    /\ Dropped
    /\ last.transfer[1].permissions # <<>>
    /\ DropPayload(last.transfer[1]) # <<>>
    /\ NotOnRole(last.transfer[1], last.role[1]) = <<>>

\* C7: a drop that adds a permission emits exactly one updateRole; the role
\* it carries has the target's id, name and description and, as permissions,
\* the whole merged list.
C7_OneFullUpdate ==
    Dropped =>
        LET role == last.role[1]
            added == NotOnRole(last.transfer[1], role)
        IN  added # <<>> =>
                /\ Len(last.emits) = 1
                /\ last.emits[1].id = role.id
                /\ last.emits[1].name = role.name
                /\ last.emits[1].description = role.description
                /\ last.emits[1].permissions = role.permissions \o added

\* A drop that added to a role that held permissions already.
C7_Witness ==
    /\ Dropped
    /\ last.role[1].permissions # <<>>
    /\ NotOnRole(last.transfer[1], last.role[1]) # <<>>
    /\ roles # <<>>

\* C8: when the permissions key is set, what a drop emits is what the array
\* alone gives, whatever the permission key holds; the permission key
\* decides only when the permissions key is not set.
C8_ArrayKeyFirst ==
    Dropped =>
        LET t == last.transfer[1]
            role == last.role[1]
        IN  IF t.permissions # <<>>
            THEN /\ last.emits = handleDropMultiple(t.permissions[1], role)
                 /\ \A other \in ForeignTransfers :
                       handleDrop([t EXCEPT !.permission = other.permission], role)
                           = last.emits
            ELSE last.emits =
                    IF t.permission # <<>>
                    THEN handleDropSingle(t.permission[1], role)
                    ELSE <<>>

\* A drop with both keys set: the array added nothing, the single
\* permission was not on the role.
C8_Witness ==
    /\ Dropped
    /\ last.transfer[1].permissions # <<>>
    /\ last.transfer[1].permission # <<>>
    /\ last.emits = <<>>
    /\ ~OnRole(last.role[1], last.transfer[1].permission[1])

\* C9: removePermissionFromRole emits exactly one updateRole, also for an
\* id the role does not hold; the role it carries has the same id, name and
\* description, and the permissions of another id in their order.
C9_RemoveAlwaysEmits ==
    last.op = "removePermissionFromRole" =>
        LET role == last.role[1]
        IN  /\ Len(last.emits) = 1
            /\ last.emits[1].id = role.id
            /\ last.emits[1].name = role.name
            /\ last.emits[1].description = role.description
            /\ last.emits[1].permissions =
                  SelectSeq(role.permissions, LAMBDA p : p.id # last.id[1])

\* removePermissionFromRole ran with an id that the role did not hold.
C9_Witness ==
    /\ last.op = "removePermissionFromRole"
    /\ last.role[1].permissions # <<>>
    /\ ~HasId(last.role[1].permissions, last.id[1])

ToggledTwice == last.op = "toggleGroup" /\ last.streak = 2

\* C10 as stated: two consecutive toggleGroup calls on one group leave the
\* selection as it was before the first.
C10_ToggleGroupInvolution ==
    ToggledTwice => selectedPermissions = last.selected

\* C10, amended: two consecutive toggleGroup calls on one group restore the
\* selection if, before the first, all of the group's ids or none of them
\* were selected; if only some were, the calls leave the selection without
\* the group's ids.
C10_ToggleGroupTwice ==
    ToggledTwice =>
        LET S == last.selected
            G == IdsOf(last.group)
        IN  selectedPermissions =
                IF G \subseteq S \/ G \cap S = {} THEN S ELSE S \ G

\* Two consecutive toggleGroup calls on a group that was selected in part.
C10_Witness ==
    /\ ToggledTwice
    /\ IdsOf(last.group) \cap last.selected # {}
    /\ ~(IdsOf(last.group) \subseteq last.selected)

\* C11: toggleGroup(G) on the selection S leaves S minus the ids of G if
\* every member id of G is in S, and S with the ids of G otherwise; no id
\* outside G is added or removed, and the empty group changes nothing.
C11_ToggleGroupPolicy ==
    [][last'.op = "toggleGroup" =>
          LET S == selectedPermissions
              G == IdsOf(last'.group)
          IN  /\ selectedPermissions' = IF G \subseteq S THEN S \ G ELSE S \cup G
              /\ selectedPermissions' \ G = S \ G
              /\ (last'.group = <<>> => selectedPermissions' = S)]_vars

\* toggleGroup ran on a group selected in part, while an id outside the
\* group was selected, and filled the group.
C11_Witness ==
    /\ last.op = "toggleGroup"
    /\ last.streak = 1
    /\ IdsOf(last.group) \cap last.selected # {}
    /\ last.selected \ IdsOf(last.group) # {}
    /\ selectedPermissions = last.selected \cup IdsOf(last.group)
    /\ selectedPermissions # last.selected

\* A by-category view was computed last: the panel's (either revision), or
\* that of a role's card.
RenderedByCategory ==
    \/ last.op = "render" /\ groupBy = "category"
    \/ last.op = "renderRole"

\* The collection the last view was computed from.
RenderedFrom ==
    IF last.op = "renderRole" THEN last.role[1].permissions ELSE permissions

RECURSIVE TotalLength(_)
TotalLength(entries) ==
    IF entries = <<>> THEN 0
    ELSE Len(Head(entries).group) + TotalLength(Tail(entries))

\* The groups of the entries partition the collection ps.
Partitions(entries, ps) ==
    /\ \A k \in DOMAIN entries : entries[k].group # <<>>
    /\ \A i \in DOMAIN ps :
          Cardinality({k \in DOMAIN entries : ps[i] \in Range(entries[k].group)}) = 1
    /\ \A k \in DOMAIN entries : Range(entries[k].group) \subseteq Range(ps)
    /\ TotalLength(entries) = Len(ps)

\* C12: the by-category grouping of every permission collection yields
\* groups that partition it: each permission in exactly one group, no group
\* empty, the groups together holding what the collection holds.
C12_CategoryPartition ==
    RenderedByCategory =>
        /\ ~last.view[1].threw
        /\ Partitions(last.view[1].entries, RenderedFrom)

\* The view computed last, if the computation returned one.
Returned == last.view # <<>> /\ ~last.view[1].threw

\* Every permission of every group of the last view is under the key KeyFor gives it.
KeyedBy(KeyFor(_)) ==
    \A k \in DOMAIN last.view[1].entries :
        LET entry == last.view[1].entries[k]
        IN  \A i \in DOMAIN entry.group : entry.key = KeyFor(entry.group[i])

\* The category field if it is a non-empty string, else the sentinel.
CategoryField(p) ==
    IF p.category \notin {Absent, Undefined, <<>>} THEN p.category ELSE Uncategorized

\* C13: in a by-category view, a permission is under the key that is its
\* category field if that is present and not empty, and under
\* "Uncategorized" otherwise, whatever its name.
C13_KeyIsCategoryField ==
    (RenderedByCategory /\ Returned) => KeyedBy(CategoryField)

\* The part of the name after its last '.', the whole name if it has none.
AfterLastDot(p) ==
    LET dots == {i \in DOMAIN p.name : p.name[i] = "."}
    IN  IF dots = {} THEN p.name
        ELSE LET lastDot == CHOOSE i \in dots : \A j \in dots : j <= i
             IN  SubSeq(p.name, lastDot + 1, Len(p.name))

RenderedByAction == last.op = "render" /\ groupBy = "action"

\* C14: in a by-action view, a permission is under the key that is the part
\* of its name after the last '.', or its whole name if it has no '.';
\* also for a name that ends with '.'.
C14_KeyIsNameSuffix ==
    (RenderedByAction /\ Returned) => KeyedBy(AfterLastDot)

\* The same two statements for the first revision of the panel and for the
\* role cards only.
FirstRevision == last.op = "renderRole" \/ last.revision = 1

C13_FirstRevision == FirstRevision => C13_KeyIsCategoryField

C14_FirstRevision == FirstRevision => C14_KeyIsNameSuffix

\* The keys of the last view, in the order the template enumerates them.
RenderedKeys == [k \in DOMAIN last.view[1].entries |-> last.view[1].entries[k].key]

\* C15: the groups of a view are enumerated in lexicographic order of their
\* keys (by code units, the order of Array.prototype.sort), also for keys
\* that look like integers and keys that differ in case only.
C15_KeysEnumeratedSorted ==
    Returned =>
        \A k \in DOMAIN RenderedKeys :
            k > 1 => CodeUnitLess(RenderedKeys[k - 1], RenderedKeys[k])

\* The same for the views without an integer key.
C15_UnlessIntegerKeys ==
    (Returned /\ \A k \in DOMAIN RenderedKeys : ~IsIntegerKey(RenderedKeys[k]))
        => C15_KeysEnumeratedSorted

Imported ==
    /\ last.op = "importData"
    /\ last.dialog = "success"
    /\ last.file[1].shape \in {"array", "object"}

IsString(id) == id.ty = "string"

\* C17: after a successful import every id of the state is a string: the
\* ids of the permissions, of the roles, and of the permissions in the roles.
C17_ImportedIdsAreStrings ==
    Imported =>
        /\ \A i \in DOMAIN permissions : IsString(permissions[i].id)
        /\ \A i \in DOMAIN roles :
              /\ IsString(roles[i].id)
              /\ \A j \in DOMAIN roles[i].permissions :
                    IsString(roles[i].permissions[j].id)

\* The same for the ids of the permissions and of the roles themselves.
C17_TopLevelIds ==
    Imported =>
        /\ \A i \in DOMAIN permissions : IsString(permissions[i].id)
        /\ \A i \in DOMAIN roles : IsString(roles[i].id)

\* The file imported last is a bare array or an object without a
\* permissions key, and each of its values is an object.
ImportedList ==
    /\ last.op = "importData"
    /\ \/ last.file[1].shape = "array"
       \/ last.file[1].shape = "object" /\ ~last.file[1].hasPermissions
    /\ ~HasNull(last.file[1].items)

\* The objects of that file: the elements of the array, or the values of
\* the object in the order its keys are enumerated.
ListedObjects ==
    IF last.file[1].shape = "array" THEN last.file[1].items
    ELSE ObjectValues(last.file[1])

\* C18: the import of a bare array of permissions, or of an object whose
\* values are permissions, leaves exactly those permissions, in order and
\* with their ids as strings, and no role.
C18_ListReplacesStore ==
    ImportedList =>
        /\ last.dialog = "success"
        /\ roles = <<>>
        /\ Len(permissions) = Len(ListedObjects)
        /\ \A i \in DOMAIN permissions :
              /\ permissions[i].id = StringId(ListedObjects[i].id.v)
              /\ permissions[i].name = ListedObjects[i].name
              /\ permissions[i].description = ListedObjects[i].description
              /\ permissions[i].category = ListedObjects[i].category

\* The array [{"id":7,"name":"a.b"}] was imported into a store that held a
\* role: the store holds the permission "7" and no role.
C18_Witness ==
    /\ last.op = "importData"
    /\ last.file[1] = BareArray
    /\ last.rolesBefore # <<>>
    /\ IdsOf(permissions) = {StringId("7")}
    /\ roles = <<>>

\* A state of canonical shape: every id is a string.
Canonical(ps, rs) ==
    /\ \A i \in DOMAIN ps : IsString(ps[i].id)
    /\ \A i \in DOMAIN rs :
          /\ IsString(rs[i].id)
          /\ \A j \in DOMAIN rs[i].permissions : IsString(rs[i].permissions[j].id)

\* The step imports the file that exportData writes for the current state.
RoundTrip ==
    /\ last'.op = "importData"
    /\ last'.file[1] = exportData(permissions, roles)
    /\ Canonical(permissions, roles)

\* C19 as stated: exporting a canonical state and importing the exported
\* text leaves the permissions and the roles equal to the original ones.
C19_RoundTripIsIdentity ==
    [][RoundTrip => (permissions' = permissions /\ roles' = roles)]_vars

\* The permissions without the category keys that hold undefined.
WithoutUndefined(ps) ==
    [i \in DOMAIN ps |->
        IF ps[i].category = Undefined THEN [ps[i] EXCEPT !.category = Absent]
        ELSE ps[i]]

\* C19, amended: the round trip leaves the roles as they were and the
\* permissions as they were, in the same order, except that a category key
\* that held undefined is absent afterwards.
C19_RoundTripUpToUndefined ==
    [][RoundTrip =>
          /\ permissions' = WithoutUndefined(permissions)
          /\ roles' = roles
          /\ last'.dialog = "success"]_vars

\* The file exported from a state with a permission added with the form and
\* a role that holds a permission was imported into that state.
C19_Witness ==
    /\ last.op = "importData"
    /\ last.dialog = "success"
    /\ last.file[1] = exportData(permissions, roles)
    /\ last.file[1] \notin PickedFiles
    /\ last.rolesBefore = roles
    /\ \E i \in DOMAIN permissions : permissions[i].id = RandomUUID(1)
    /\ \E i \in DOMAIN roles : roles[i].permissions # <<>>

\* The step is an import that ends with the error dialog.
ImportFails == last'.op = "importData" /\ last'.dialog = "error"

\* C20: an import that reports an error leaves the permissions and the
\* roles exactly as they were before it.
C20_FailedImportChangesNothing ==
    [][ImportFails => (permissions' = permissions /\ roles' = roles)]_vars

\* The same for the roles alone, and for the permissions unless the
\* exception came from an element of the roles array.
C20_UnlessRoleThrows ==
    [][ImportFails =>
          /\ roles' = roles
          /\ (~(last'.file[1].hasRoles /\ HasNull(last'.file[1].roles))
                => permissions' = permissions)]_vars

\* The step imports a text that is not JSON, or the JSON text of null, a
\* number, a string or a boolean.
ImportsNoObject ==
    /\ last'.op = "importData"
    /\ last'.file[1].shape \in {"invalid", "null", "primitive"}

\* C21: an import of a text that is not JSON, or of JSON that is not an
\* object, ends with the error dialog and leaves permissions and roles as
\* they were.
C21_NoObjectIsAnError ==
    [][ImportsNoObject =>
          /\ last'.dialog = "error"
          /\ permissions' = permissions
          /\ roles' = roles]_vars

\* The same without the dialog, and with it for all but the primitives.
C21_NoObjectChangesNothing ==
    [][ImportsNoObject =>
          /\ permissions' = permissions
          /\ roles' = roles
          /\ (last'.file[1].shape # "primitive" => last'.dialog = "error")]_vars

\* C22: updateRole(r) replaces a role whose id is r.id by r, at its
\* position, and leaves every other role and the permissions as they were;
\* if no role has that id it changes nothing and adds no role.
C22_UpdateRoleReplacesById ==
    [][last'.op = "updateRole" =>
          LET r == last'.role[1]
              hits == {i \in DOMAIN roles : roles[i].id = r.id}
          IN  /\ permissions' = permissions
              /\ Len(roles') = Len(roles)
              /\ IF hits = {} THEN roles' = roles
                 ELSE \E i \in hits :
                        /\ roles'[i] = r
                        /\ \A j \in DOMAIN roles : j # i => roles'[j] = roles[j]]_vars

\* updateRole replaced the second of two roles and left the first.
C22_Witness ==
    /\ last.op = "updateRole"
    /\ Len(roles) = 2
    /\ roles[2] = last.role[1]
    /\ roles[2] # last.rolesBefore[2]
    /\ roles[1] = last.rolesBefore[1]

\* updateRole was called with an id that no role has.
C22_NotFound ==
    /\ last.op = "updateRole"
    /\ roles # <<>>
    /\ \A i \in DOMAIN last.rolesBefore : last.rolesBefore[i].id # last.role[1].id

\* C23: deleteRole(id) removes the roles of that id and nothing else: the
\* other roles stay as they were, in their order, and so do the permissions.
C23_DeleteRoleRemovesOnlyThat ==
    [][last'.op = "deleteRole" =>
          /\ permissions' = permissions
          /\ roles' = SelectSeq(roles, LAMBDA r : r.id # last'.id[1])]_vars

\* deleteRole removed a role and left one that holds a permission.
C23_Witness ==
    /\ last.op = "deleteRole"
    /\ Len(roles) < Len(last.rolesBefore)
    /\ permissions # <<>>
    /\ \E i \in DOMAIN roles : roles[i].permissions # <<>>

\* C24 as stated: when a permission is deleted from the global collection,
\* the copy a role holds stays in that role's list.
C24_CopyOutlivesPermission ==
    [][last'.op = "deletePermission" =>
          \A i \in DOMAIN roles :
              HasId(roles[i].permissions, last'.id[1])
                  => /\ i \in DOMAIN roles'
                     /\ HasId(roles'[i].permissions, last'.id[1])]_vars

\* C24, amended: deleting a permission from the global collection removes
\* the copies of that id from every role and leaves every other copy, and
\* every role's other fields, as they were.
C24_DeleteRemovesCopiesOnly ==
    [][last'.op = "deletePermission" =>
          /\ DOMAIN roles' = DOMAIN roles
          /\ \A i \in DOMAIN roles :
                roles'[i] =
                    [roles[i] EXCEPT !.permissions =
                        SelectSeq(@, LAMBDA p : p.id # last'.id[1])]]_vars

\* A permission was deleted of which a role held a copy next to the copy of
\* another permission, which it still holds.
C24_Witness ==
    /\ last.op = "deletePermission"
    /\ \E i \in DOMAIN roles :
          /\ HasId(last.rolesBefore[i].permissions, last.id[1])
          /\ roles[i].permissions # <<>>

\* C25: without import, every permission a role holds has the id of a
\* permission of the global collection.
C25_CopiesHaveSources ==
    \A i \in DOMAIN roles :
        IdsOf(roles[i].permissions) \subseteq IdsOf(permissions)

\* A permission was deleted while a role held copies of it and of another
\* permission; the role holds the other copy only.
C25_Witness ==
    /\ last.op = "deletePermission"
    /\ permissions # <<>>
    /\ \E i \in DOMAIN roles :
          /\ Len(last.rolesBefore[i].permissions) = 2
          /\ Len(roles[i].permissions) = 1

\* C26: every selected id is the id of a permission of the global
\* collection.
C26_SelectionIsCurrent == selectedPermissions \subseteq IdsOf(permissions)

\* The same for the states that no deletion, import or clear all led to.
C26_UnlessRemoved ==
    [][last'.op \notin {"deletePermission", "importData", "confirmClearAll"} =>
          (C26_SelectionIsCurrent => C26_SelectionIsCurrent')]_vars

\* The JSON text of a permission, as the value it denotes: the keys that
\* hold a value.
JsonOf(p) == IF p.category = Undefined THEN [p EXCEPT !.category = Absent] ELSE p

\* C27: onDragStart sets one of the two keys.  If the id of the dragged
\* permission is selected, the permissions key carries the permissions of
\* the global collection whose id is selected, in the collection's order,
\* the dragged one among them; if not, the permission key carries the
\* dragged permission, whatever is selected.
C27_DragCarriesSelectionOrOne ==
    last.op = "onDragStart" =>
        LET t == transfer[1]
            dragged == last.permission[1]
            chosen == SelectSeq(permissions, LAMBDA p : p.id \in selectedPermissions)
        IN  IF dragged.id \in selectedPermissions
            THEN /\ t.permission = <<>>
                 /\ t.permissions = <<[i \in DOMAIN chosen |-> JsonOf(chosen[i])]>>
                 /\ \E i \in DOMAIN t.permissions[1] : t.permissions[1][i] = JsonOf(dragged)
            ELSE /\ t.permissions = <<>>
                 /\ t.permission = <<JsonOf(dragged)>>

\* A permission that is not selected was dragged while another was selected.
C27_Witness ==
    /\ last.op = "onDragStart"
    /\ selectedPermissions \cap IdsOf(permissions) # {}
    /\ last.permission[1].id \notin selectedPermissions
    /\ transfer[1].permissions = <<>>

\* A selected permission was dragged with another selected one.
C27_DraggedSeveral ==
    /\ last.op = "onDragStart"
    /\ Len(transfer[1].permissions) = 1
    /\ Len(transfer[1].permissions[1]) > 1

\* The step is a drop on a role or a removePermissionFromRole on a role.
ChangesRole == last'.op \in {"handleDrop", "removePermissionFromRole"}

\* Nothing but the entry of the role the handler was called with differs
\* after the step.
OnlyThatRole ==
    /\ permissions' = permissions
    /\ selectedPermissions' = selectedPermissions
    /\ Len(roles') = Len(roles)
    /\ \E i \in DOMAIN roles :
          /\ roles[i] = last'.role[1]
          /\ \A j \in DOMAIN roles : j # i => roles'[j] = roles[j]

\* C28: a drop on a role R and removePermissionFromRole on R change at
\* most the entry of R: the other roles, the order of the roles, the
\* permissions and the selection stay as they were.
C28_OnlyTargetRoleChanges == [][ChangesRole => OnlyThatRole]_vars

\* The same for the stores in which no two roles share an id.
C28_UnlessSharedRoleId ==
    [][(ChangesRole /\ NoDuplicateIds(roles)) => OnlyThatRole]_vars

\* The by-category list of a role that holds a copy of every permission of
\* the global collection.
RoleListOfCopies ==
    groupPermissionsByCategory([i \in DOMAIN permissions |-> JsonOf(permissions[i])])

\* C29: the key a permission has in the by-category view of the permission
\* panel is the key its copy has in the by-category list of a role.
C29_PanelAndRoleKeysAgree ==
    (last.op = "render" /\ groupBy = "category" /\ Returned /\ ~RoleListOfCopies.threw) =>
        \A k \in DOMAIN last.view[1].entries :
            LET entry == last.view[1].entries[k]
            IN  \A i \in DOMAIN entry.group :
                    \E r \in DOMAIN RoleListOfCopies.entries :
                        /\ RoleListOfCopies.entries[r].key = entry.key
                        /\ JsonOf(entry.group[i]) \in
                               Range(RoleListOfCopies.entries[r].group)

\* The same for the first revision of the panel.
C29_FirstRevision == last.revision = 1 => C29_PanelAndRoleKeysAgree

(***************************************************************************)
(* Clear All and the persisted entry.                                      *)
(***************************************************************************)
\* C30: once Clear All is confirmed and the watcher's callback has run,
\* localStorage holds no entry under STORAGE_KEY.
C30_ClearAllLeavesNoEntry ==
    last.op = "confirmClearAll" => storage = NoEntry

\* At the return of confirmClearAll the entry is gone; the callback that
\* its assignments queued then writes the emptied collections under the key.
C30_RemovedThenSavedEmpty ==
    last.op = "confirmClearAll" =>
        /\ last.storageAtReturn = <<NoEntry>>
        /\ storage = <<StringifyData(<<>>, <<>>)>>

\* An entry under the key is always the store as it is.
C30_EntryIsTheStore ==
    storage # NoEntry => storage = <<StringifyData(permissions, roles)>>

====
